---------------------------- MODULE Spec2Model ----------------------------
(***************************************************************************)
(* A model of the valuation pipeline of src/src/App.jsx: the value         *)
(* classifiers (coerceDate, isDateLike, isNumericLike), column inference   *)
(* (detectColumns), the series builder (toSeries) and the returns          *)
(* analytics (calculateTrailingReturns, calculateYTD, findClosest,         *)
(* monthlyReturns), and the uploads of PortfolioPage (handleFile).         *)
(*                                                                         *)
(* Conventions.                                                            *)
(*  - A JavaScript number is a record [k, n, d]: k = "fin" is the rational *)
(*    n/d in lowest terms (d > 0), k = "inf" is +Infinity (n = 1) or       *)
(*    -Infinity (n = -1), k = "nan" is NaN.  IEEE rounding of finite       *)
(*    results and the sign of zero are not modelled.                       *)
(*  - null is the record Null (k = "null"), undefined is Undef.            *)
(*  - A Date is a record [ok, t]: ok = FALSE is an Invalid Date, otherwise *)
(*    t is the instant in whole minutes since 1970-01-01T00:00Z.           *)
(*  - A string is a sequence of one-character strings.                     *)
(*  - tz is the offset of local time from UTC in minutes (local = UTC +    *)
(*    tz); it is fixed during a run (no daylight-saving changes).          *)
(***************************************************************************)
EXTENDS Integers, Sequences, FiniteSets, TLC

VARIABLES tz, keys, rows, pc, sel, series, trailing, grid, err, files, reading

vars == <<tz, keys, rows, pc, sel, series, trailing, grid, err, files, reading>>

\* The uploads of the page: the sheets of the files chosen so far, in the
\* order they were chosen, and the ones whose read is still in flight.
uploads == <<files, reading>>

\* ------------------------------------------------------------------------
\* Integer helpers
\* ------------------------------------------------------------------------

Abs(x) == IF x < 0 THEN -x ELSE x

RECURSIVE GCD(_, _)
GCD(a, b) == IF b = 0 THEN a ELSE GCD(b, a % b)

\* ------------------------------------------------------------------------
\* JavaScript numbers
\* ------------------------------------------------------------------------

NaN == [k |-> "nan", n |-> 0, d |-> 1]
PosInf == [k |-> "inf", n |-> 1, d |-> 1]
NegInf == [k |-> "inf", n |-> -1, d |-> 1]
Null == [k |-> "null", n |-> 0, d |-> 1]
Undef == [k |-> "undef", n |-> 0, d |-> 1]

\* The rational a/b (b # 0) in lowest terms.
Fin(a, b) ==
    LET g == GCD(Abs(a), Abs(b))
        s == IF b < 0 THEN -1 ELSE 1
    IN  [k |-> "fin", n |-> (s * a) \div g, d |-> (s * b) \div g]

Num(i) == [k |-> "fin", n |-> i, d |-> 1]

IsFin(x) == x.k = "fin"
IsNaN(x) == x.k = "nan"
IsInf(x) == x.k = "inf"
Sign(x) == IF x.n > 0 THEN 1 ELSE IF x.n < 0 THEN -1 ELSE 0
Inf(s) == IF s > 0 THEN PosInf ELSE NegInf

\* a + b
NAdd(a, b) ==
    IF IsNaN(a) \/ IsNaN(b) THEN NaN
    ELSE IF IsInf(a) /\ IsInf(b) THEN (IF a.n = b.n THEN a ELSE NaN)
    ELSE IF IsInf(a) THEN a
    ELSE IF IsInf(b) THEN b
    ELSE LET g == GCD(a.d, b.d)
         IN  Fin(a.n * (b.d \div g) + b.n * (a.d \div g), (a.d \div g) * b.d)

NNeg(a) == IF IsNaN(a) THEN NaN ELSE [a EXCEPT !.n = -a.n]

\* a - b
NSub(a, b) == NAdd(a, NNeg(b))

\* a * b
NMul(a, b) ==
    IF IsNaN(a) \/ IsNaN(b) THEN NaN
    ELSE IF IsInf(a) \/ IsInf(b)
         THEN (IF Sign(a) * Sign(b) = 0 THEN NaN ELSE Inf(Sign(a) * Sign(b)))
    ELSE IF a.n = 0 \/ b.n = 0 THEN Num(0)
    ELSE LET g == GCD(Abs(a.n), b.d)
             h == GCD(Abs(b.n), a.d)
         IN  Fin((a.n \div g) * (b.n \div h), (a.d \div h) * (b.d \div g))

\* a / b
NDiv(a, b) ==
    IF IsNaN(a) \/ IsNaN(b) THEN NaN
    ELSE IF IsInf(a) /\ IsInf(b) THEN NaN
    ELSE IF IsInf(a) THEN (IF Sign(b) < 0 THEN NNeg(a) ELSE a)
    ELSE IF IsInf(b) THEN Num(0)
    ELSE IF b.n = 0 THEN (IF a.n = 0 THEN NaN ELSE Inf(Sign(a)))
    ELSE IF a.n = 0 THEN Num(0)
    ELSE LET g == GCD(Abs(a.n), Abs(b.n))
             h == GCD(a.d, b.d)
         IN  Fin((a.n \div g) * (b.d \div h), (a.d \div h) * (b.n \div g))

\* a < b, a <= b, a === b on numbers (all FALSE when either is NaN)
NLt(a, b) ==
    IF IsNaN(a) \/ IsNaN(b) THEN FALSE
    ELSE IF IsInf(a) THEN a.n < 0 /\ ~(IsInf(b) /\ b.n < 0)
    ELSE IF IsInf(b) THEN b.n > 0
    ELSE a.n * b.d < b.n * a.d

NEq(a, b) == ~IsNaN(a) /\ ~IsNaN(b) /\ a = b

NLeq(a, b) == NLt(a, b) \/ NEq(a, b)

\* Math.max(a, b), Math.min(a, b)
MathMax(a, b) ==
    IF IsNaN(a) \/ IsNaN(b) THEN NaN ELSE IF NLt(a, b) THEN b ELSE a

MathMin(a, b) ==
    IF IsNaN(a) \/ IsNaN(b) THEN NaN ELSE IF NLt(b, a) THEN b ELSE a

\* Math.min(...xs): +Infinity for no arguments
RECURSIVE MathMinAll(_)
MathMinAll(xs) ==
    IF xs = <<>> THEN PosInf ELSE MathMin(Head(xs), MathMinAll(Tail(xs)))

\* x.toFixed(f) read back as a number, for scale = 10^f: the nearest multiple
\* of 1/scale, a tie going away from zero.
RoundTo(x, scale) ==
    IF ~IsFin(x) THEN x
    ELSE LET q == (2 * scale * Abs(x.n) + x.d) \div (2 * x.d)
         IN  Fin(Sign(x) * q, scale)

\* Number(x.toFixed(2))
ToFixed2(x) == RoundTo(x, 100)

\* ------------------------------------------------------------------------
\* The civil calendar (proleptic Gregorian), as Date's local-time fields use
\* it.  Days are counted from 1970-01-01 (day 0).
\* ------------------------------------------------------------------------

MinutesPerDay == 1440

\* Days since 1970-01-01 of the civil date y-m-d (m in 1..12).
DaysFromCivil(y, m, d) ==
    LET yy == IF m <= 2 THEN y - 1 ELSE y
        era == yy \div 400
        yoe == yy - era * 400
        mp == IF m > 2 THEN m - 3 ELSE m + 9
        doy == (153 * mp + 2) \div 5 + d - 1
        doe == yoe * 365 + yoe \div 4 - yoe \div 100 + doy
    IN  era * 146097 + doe - 719468

\* The civil date [y, m, d] of day z: from the month counted from March
\* (mp) and the day of the March-based year (doy), from the year of the
\* era (yoe), from the day of the era (doe).
CivilOfMonth(yy, doy, mp) ==
    [y |-> IF mp < 10 THEN yy ELSE yy + 1,
     m |-> IF mp < 10 THEN mp + 3 ELSE mp - 9,
     d |-> doy - (153 * mp + 2) \div 5 + 1]

CivilOfYearDay(yy, doy) == CivilOfMonth(yy, doy, (5 * doy + 2) \div 153)

CivilOfYear(era, doe, yoe) ==
    CivilOfYearDay(yoe + era * 400, doe - (365 * yoe + yoe \div 4 - yoe \div 100))

CivilOfEra(era, doe) ==
    CivilOfYear(era, doe, (doe - doe \div 1460 + doe \div 36524 - doe \div 146096) \div 365)

CivilFromDays(z) == CivilOfEra((z + 719468) \div 146097, (z + 719468) % 146097)

\* ------------------------------------------------------------------------
\* Strings and their numeric readings
\* ------------------------------------------------------------------------

Digits == {"0", "1", "2", "3", "4", "5", "6", "7", "8", "9"}

DigitVal(c) ==
    CASE c = "0" -> 0 [] c = "1" -> 1 [] c = "2" -> 2 [] c = "3" -> 3
      [] c = "4" -> 4 [] c = "5" -> 5 [] c = "6" -> 6 [] c = "7" -> 7
      [] c = "8" -> 8 [] c = "9" -> 9

RECURSIVE Pow10(_)
Pow10(e) == IF e = 0 THEN 1 ELSE 10 * Pow10(e - 1)

\* The value of a sequence of digits read in base ten (0 for the empty one).
RECURSIVE DigitsToInt(_)
DigitsToInt(s) ==
    IF s = <<>> THEN 0
    ELSE 10 * DigitsToInt(SubSeq(s, 1, Len(s) - 1)) + DigitVal(s[Len(s)])

\* The number of digits at the start of s.
RECURSIVE LeadingDigits(_)
LeadingDigits(s) ==
    IF s = <<>> \/ Head(s) \notin Digits THEN 0 ELSE 1 + LeadingDigits(Tail(s))

Drop(s, k) == SubSeq(s, k + 1, Len(s))

RECURSIVE TrimLeft(_)
TrimLeft(s) == IF s # <<>> /\ Head(s) = " " THEN TrimLeft(Tail(s)) ELSE s

RECURSIVE TrimRight(_)
TrimRight(s) ==
    IF s # <<>> /\ s[Len(s)] = " " THEN TrimRight(SubSeq(s, 1, Len(s) - 1)) ELSE s

\* s.trim()
Trim(s) == TrimRight(TrimLeft(s))

\* s.replace(/,/g, "")
StripCommas(s) == SelectSeq(s, LAMBDA c : c # ",")

InfinityWord == <<"I", "n", "f", "i", "n", "i", "t", "y">>

StartsWith(s, p) == Len(s) >= Len(p) /\ SubSeq(s, 1, Len(p)) = p

\* The longest decimal literal at the start of s: an optional sign, then
\* Infinity, or digits with an optional fraction, or a fraction alone.
\* [len, val]; len = 0 when s starts with no literal.  Exponents and
\* radix prefixes are not modelled.  sg is the length of the sign, r the
\* text after it, a the number of digits before the point and b after it.
DecimalValue(sg, neg, r, a, b) ==
    IF a = 0 /\ b = 0 THEN [len |-> 0, val |-> NaN]
    ELSE [len |-> sg + a + (IF Len(r) > a /\ r[a + 1] = "." THEN 1 + b ELSE 0),
          val |-> Fin((IF neg THEN -1 ELSE 1)
                        * (DigitsToInt(SubSeq(r, 1, a)) * Pow10(b)
                             + DigitsToInt(SubSeq(r, a + 2, a + 1 + b))),
                      Pow10(b))]

DecimalDigits(sg, neg, r, a) ==
    DecimalValue(sg, neg, r, a,
                 IF Len(r) > a /\ r[a + 1] = "." THEN LeadingDigits(Drop(r, a + 1)) ELSE 0)

SignedDecimal(sg, neg, r) ==
    IF StartsWith(r, InfinityWord)
    THEN [len |-> sg + Len(InfinityWord), val |-> IF neg THEN NegInf ELSE PosInf]
    ELSE DecimalDigits(sg, neg, r, LeadingDigits(r))

SignLen(s) == IF s # <<>> /\ Head(s) \in {"-", "+"} THEN 1 ELSE 0

DecimalPrefix(s) == SignedDecimal(SignLen(s), s # <<>> /\ Head(s) = "-", Drop(s, SignLen(s)))

\* The value of the literal p if it is the whole of a text of n characters
WholeOrNaN(p, n) == IF p.len = n THEN p.val ELSE NaN

NumberOfTrimmed(t) ==
    IF t = <<>> THEN Num(0) ELSE WholeOrNaN(DecimalPrefix(t), Len(t))

\* Number(s) for a string s
NumberOfString(s) == NumberOfTrimmed(Trim(s))

\* parseFloat(s)
parseFloat(s) == DecimalPrefix(TrimLeft(s)).val

\* /^-?\d+(\.\d+)?$/.test(s)
IsPlainNumber(s) ==
    LET sg == IF s # <<>> /\ Head(s) = "-" THEN 1 ELSE 0
        r == Drop(s, sg)
        a == LeadingDigits(r)
        rest == Drop(r, a)
    IN  /\ a > 0
        /\ \/ rest = <<>>
           \/ /\ Len(rest) >= 2
              /\ Head(rest) = "."
              /\ LeadingDigits(Tail(rest)) = Len(rest) - 1

\* ------------------------------------------------------------------------
\* Dates
\* ------------------------------------------------------------------------

InvalidDate == [ok |-> FALSE, t |-> 0]
DateAt(t) == [ok |-> TRUE, t |-> t]

\* isNaN(+d)
DateIsNaN(d) == ~d.ok

\* new Date(y, m0, d, H, M, S) read in local time; m0 counts from 0.
\* Only whole minutes are kept.
LocalDate(zone, y, m0, d, H, M) ==
    DateAt((DaysFromCivil(y, m0 + 1, 1) + d - 1) * MinutesPerDay + H * 60 + M - zone)

\* The local calendar day of a Date (the day getFullYear, getMonth and
\* getDate read), and its UTC day (the day toISOString prints).
LocalDay(zone, d) == (d.t + zone) \div MinutesPerDay
UtcDay(d) == d.t \div MinutesPerDay

getFullYear(zone, d) == CivilFromDays(LocalDay(zone, d)).y
getMonth(zone, d) == CivilFromDays(LocalDay(zone, d)).m - 1

\* d.toISOString().slice(0, 10): the UTC civil date, for years 0..9999.
IsoDay(d) == CivilFromDays(UtcDay(d))

\* new Date(s) for a string s that is not a plain number.  The ECMAScript
\* date-time format is read: YYYY-MM-DD is midnight UTC, YYYY-MM-DDTHH:mm
\* is local time.  Every other text is implementation-defined; V8 rejects
\* the ones the model's sheets hold (words, digits followed by a word,
\* comma-grouped numbers), and so does this definition.
DateOfString(zone, s) ==
    LET isDay == /\ Len(s) >= 10
                 /\ \A i \in {1, 2, 3, 4, 6, 7, 9, 10} : s[i] \in Digits
                 /\ s[5] = "-" /\ s[8] = "-"
        y == DigitsToInt(SubSeq(s, 1, 4))
        m == DigitsToInt(SubSeq(s, 6, 7))
        d == DigitsToInt(SubSeq(s, 9, 10))
        isTime == /\ Len(s) = 16
                  /\ s[11] = "T" /\ s[14] = ":"
                  /\ \A i \in {12, 13, 15, 16} : s[i] \in Digits
        H == DigitsToInt(SubSeq(s, 12, 13))
        M == DigitsToInt(SubSeq(s, 15, 16))
    IN  IF ~isDay \/ m \notin 1..12 \/ d \notin 1..31 THEN InvalidDate
        ELSE IF Len(s) = 10 THEN DateAt(DaysFromCivil(y, m, d) * MinutesPerDay)
        ELSE IF isTime /\ H < 24 /\ M < 60 THEN LocalDate(zone, y, m - 1, d, H, M)
        ELSE InvalidDate

\* ------------------------------------------------------------------------
\* Raw cells: what sheet_to_json leaves in a row under a column name
\* ------------------------------------------------------------------------

NullCell == [t |-> "null", num |-> Null, str |-> <<>>, date |-> InvalidDate]
NumCell(x) == [t |-> "number", num |-> x, str |-> <<>>, date |-> InvalidDate]
StrCell(s) == [t |-> "string", num |-> Null, str |-> s, date |-> InvalidDate]
DateCell(d) == [t |-> "date", num |-> Null, str |-> <<>>, date |-> d]

\* ------------------------------------------------------------------------
\* Value classifiers
\* ------------------------------------------------------------------------

MaxSerial == 2958465
SerialEpochOffset == 25569
MaxDateDays == 100000000

\* The civil date of the whole days of a serial: serial 60 is the
\* 1900-02-29 that never was and serial 0 is "January 0".
DayOfSerial(date) ==
    IF date = 60 THEN [y |-> 1900, m |-> 2, d |-> 29]
    ELSE IF date = 0 THEN [y |-> 1900, m |-> 1, d |-> 0]
    ELSE CivilFromDays(DaysFromCivil(1900, 1, 1) + (IF date > 60 THEN date - 1 ELSE date) - 1)

\* The decoded fields: the date dout, and the whole hours and minutes of
\* the seconds time of the fraction of the day.
DateCode(dout, time) ==
    [ok |-> TRUE, y |-> dout.y, m |-> dout.m, d |-> dout.d,
     H |-> time \div 3600, M |-> (time \div 60) % 60]

\* XLSX.SSF.parse_date_code(v): the date fields of a spreadsheet serial, or
\* null (ok = FALSE) outside 0..2958465.  NaN passes both range tests and
\* decodes as serial 0.
parse_date_code(v) ==
    IF IsInf(v) \/ (IsFin(v) /\ (NLt(Num(MaxSerial), v) \/ NLt(v, Num(0))))
    THEN [ok |-> FALSE, y |-> 0, m |-> 0, d |-> 0, H |-> 0, M |-> 0]
    ELSE IF IsFin(v) THEN DateCode(DayOfSerial(v.n \div v.d), (86400 * (v.n % v.d)) \div v.d)
    ELSE DateCode(DayOfSerial(0), 0)

\* new Date((v - 25569) * 86400 * 1000) for days = v - 25569: Invalid Date
\* beyond the range of Date, 10^8 days either side of 1970.
DateOfDays(days) ==
    IF \/ Abs(days.n) \div days.d > MaxDateDays
       \/ Abs(days.n) \div days.d = MaxDateDays /\ Abs(days.n) % days.d # 0
    THEN InvalidDate
    ELSE DateAt((days.n * MinutesPerDay) \div days.d)

\* The number branch of coerceDate once the serial is decoded as dc: the
\* decoded fields as a local date, else the day count from 1899-12-30 as
\* a UTC instant.
DateOfCode(zone, v, dc) ==
    IF dc.ok /\ dc.y # 0
    THEN LocalDate(zone, dc.y, (IF dc.m = 0 THEN 1 ELSE dc.m) - 1,
                   IF dc.d = 0 THEN 1 ELSE dc.d, dc.H, dc.M)
    ELSE IF IsNaN(v) \/ IsInf(v) THEN InvalidDate
    ELSE DateOfDays(NSub(v, Num(SerialEpochOffset)))

\* coerceDate for a number
coerceDateNumber(zone, v) == DateOfCode(zone, v, parse_date_code(v))

\* The last two attempts on a text: d = new Date(s) if it is valid, else
\* the number parseFloat(s) read.
DateOrLeadingNumber(d, maybeNum) ==
    IF ~DateIsNaN(d) THEN DateCell(d)
    ELSE IF ~IsNaN(maybeNum) THEN NumCell(maybeNum)
    ELSE NullCell

\* What coerceDate goes on with for the trimmed text s: null for Invalid
\* Date, a Date it returns, or a number it calls itself with.
DateReading(zone, s) ==
    IF s = <<>> THEN NullCell
    ELSE IF IsPlainNumber(s) THEN NumCell(NumberOfString(s))
    ELSE DateOrLeadingNumber(DateOfString(zone, s), parseFloat(s))

\* coerceDate(v)
RECURSIVE coerceDate(_, _)
coerceDate(zone, v) ==
    IF v.t = "null" THEN InvalidDate
    ELSE IF v.t = "date" THEN v.date
    ELSE IF v.t = "number" THEN coerceDateNumber(zone, v.num)
    ELSE coerceDate(zone, DateReading(zone, Trim(v.str)))

\* isDateLike(v)
isDateLike(zone, v) == ~DateIsNaN(coerceDate(zone, v))

\* isNumericLike(v)
isNumericLike(v) ==
    IF v.t = "null" THEN FALSE
    ELSE IF v.t = "number" THEN ~IsNaN(v.num)
    ELSE IF v.t = "string"
         THEN LET s == StripCommas(Trim(v.str))
              IN  s # <<>> /\ ~IsNaN(NumberOfString(s))
    ELSE FALSE

\* ------------------------------------------------------------------------
\* Sorting: Array.prototype.sort is stable, so elements that compare equal
\* keep their order.
\* ------------------------------------------------------------------------

\* The indices 1..n of ks in ascending order of ks[i], equal keys in index
\* order.
RECURSIVE StableOrder(_, _)
StableOrder(ks, n) ==
    IF n = 0 THEN <<>>
    ELSE LET prev == StableOrder(ks, n - 1)
             pos == Cardinality({j \in 1..(n - 1) : ks[prev[j]] <= ks[n]})
         IN  SubSeq(prev, 1, pos) \o <<n>> \o SubSeq(prev, pos + 1, n - 1)

\* xs sorted ascending by Key (a sequence of integers, one per element)
SortedBy(xs, ks) ==
    LET ord == StableOrder(ks, Len(xs)) IN [i \in 1..Len(xs) |-> xs[ord[i]]]

\* ------------------------------------------------------------------------
\* Column inference
\* ------------------------------------------------------------------------

SampleCap == 50

\* The absent selection (null).  Column names are non-empty strings.
NoKey == ""

Min(a, b) == IF a < b THEN a ELSE b

\* A threshold rounded down.
Threshold_Floor(sampleSize) == (3 * sampleSize) \div 5

\* Math.ceil(sampleSize * 0.6); the double product rounds to the same
\* integer as the exact one for every sample size up to SampleCap.
Threshold(sampleSize) == (3 * sampleSize + 4) \div 5

\* The scores of detectColumns: for every key of the first row, the number
\* of date-like and of numeric-like cells among the sampled rows.
Scores(zone, ks, rs) ==
    LET sampleSize == Min(Len(rs), SampleCap)
    IN  [c \in 1..Len(ks) |->
           [key |-> ks[c],
            dateCount |-> Cardinality({i \in 1..sampleSize : isDateLike(zone, rs[i][ks[c]])}),
            numCount |-> Cardinality({i \in 1..sampleSize : isNumericLike(rs[i][ks[c]])})]]

\* One selection of detectColumns over the counts cnt (one per score): the
\* first of the candidates at or above the threshold sorted by descending
\* count, else the first of all scores so sorted if its count is positive.
PickKey(scores, cnt, threshold) ==
    LET idx == SelectSeq([i \in 1..Len(scores) |-> i], LAMBDA i : cnt[i] >= threshold)
        candidates == SortedBy(idx, [j \in 1..Len(idx) |-> -cnt[idx[j]]])
        first == IF candidates # <<>> THEN scores[candidates[1]].key ELSE NoKey
        best == SortedBy([i \in 1..Len(scores) |-> i], [i \in 1..Len(scores) |-> -cnt[i]])
    IN  IF first # NoKey THEN first
        ELSE IF best # <<>> /\ cnt[best[1]] > 0 THEN scores[best[1]].key
        ELSE NoKey

\* The two selections over the scores
Selection(scores, threshold) ==
    [dateKey |-> PickKey(scores, [i \in 1..Len(scores) |-> scores[i].dateCount], threshold),
     navKey |-> PickKey(scores, [i \in 1..Len(scores) |-> scores[i].numCount], threshold)]

\* detectColumns(rows)
detectColumns(zone, ks, rs) ==
    IF rs = <<>> THEN [dateKey |-> NoKey, navKey |-> NoKey]
    ELSE Selection(Scores(zone, ks, rs), Threshold(Min(Len(rs), SampleCap)))

\* ------------------------------------------------------------------------
\* Series builder
\* ------------------------------------------------------------------------

\* Number(String(rawNav).trim().replace(/,/g, "")) for a numeric-like cell.
\* The text of a number holds no comma or blank and reads back as the same
\* number.
NavOf(rawNav) ==
    IF rawNav.t = "number" THEN rawNav.num
    ELSE NumberOfString(StripCommas(Trim(rawNav.str)))

\* mapByDate.set(key, rec): a Map keeps a key's first position and its last
\* value.
MapSet(m, key, rec) ==
    IF \E i \in 1..Len(m) : m[i].key = key
    THEN [i \in 1..Len(m) |-> IF m[i].key = key THEN [key |-> key, rec |-> rec] ELSE m[i]]
    ELSE Append(m, [key |-> key, rec |-> rec])

\* One pass of the first loop of toSeries, on the map m so far: the date d
\* and the value cell rawNav of the row, then its value nav.
MapPut(m, d, nav) ==
    IF IsNaN(nav) THEN m ELSE MapSet(m, IsoDay(d), [date |-> d, nav |-> nav])

MapRow(m, d, rawNav) ==
    IF DateIsNaN(d) THEN m
    ELSE IF ~isNumericLike(rawNav) THEN m
    ELSE MapPut(m, d, NavOf(rawNav))

\* The first loop of toSeries over rows 1..n: the cleaned records by day.
RECURSIVE MapByDate(_, _, _, _, _)
MapByDate(zone, rs, dateKey, navKey, n) ==
    IF n = 0 THEN <<>>
    ELSE MapRow(MapByDate(zone, rs, dateKey, navKey, n - 1),
                coerceDate(zone, rs[n][dateKey]), rs[n][navKey])

\* Array.from(mapByDate.values()).sort((a, b) => +a.date - +b.date)
SortedValues(m) ==
    SortedBy([i \in 1..Len(m) |-> m[i].rec], [i \in 1..Len(m) |-> m[i].rec.date.t])

Clean(zone, rs, dateKey, navKey) == SortedValues(MapByDate(zone, rs, dateKey, navKey, Len(rs)))

\* A period return that divides by a previous value of 0.
PeriodReturn_NoZeroGuard(prevNav, nav) ==
    IF prevNav # Null THEN NSub(NDiv(nav, prevNav), Num(1)) ELSE Num(0)

\* The period return of the second loop.
PeriodReturn(prevNav, nav) ==
    IF prevNav # Null /\ ~NEq(prevNav, Num(0))
    THEN NSub(NDiv(nav, prevNav), Num(1))
    ELSE Num(0)

\* A peak that is never raised.
Peak_Stale(peak, equity) == peak

\* peak = Math.max(peak, equity)
Peak(peak, equity) == MathMax(peak, equity)

\* dd = (equity / peak) - 1
Drawdown(equity, peak) == NSub(NDiv(equity, peak), Num(1))

\* One pass of the second loop of toSeries on the record cur, after the
\* state w of the passes before it: the point pushed, with the new equity
\* and peak.
WalkPoint(w, cur, equity, peak) ==
    [equity |-> equity, peak |-> peak, prevNav |-> cur.nav,
     out |-> Append(w.out,
               [date |-> cur.date,
                dateLabel |-> IsoDay(cur.date),
                nav |-> cur.nav,
                equity |-> ToFixed2(equity),
                drawdown |-> ToFixed2(NMul(Drawdown(equity, peak), Num(100)))])]

WalkPeak(w, cur, equity) == WalkPoint(w, cur, equity, Peak(w.peak, equity))

WalkStep(w, cur) ==
    WalkPeak(w, cur, NMul(w.equity, NAdd(Num(1), PeriodReturn(w.prevNav, cur.nav))))

\* The second loop of toSeries over clean[1..n]: the running equity and
\* peak (unrounded) and the points pushed so far.
RECURSIVE Walk(_, _)
Walk(clean, n) ==
    IF n = 0 THEN [equity |-> Num(100), peak |-> Num(100), prevNav |-> Null, out |-> <<>>]
    ELSE WalkStep(Walk(clean, n - 1), clean[n])

Points(clean) == Walk(clean, Len(clean)).out

\* toSeries(rows, dateKey, navKey)
toSeries(zone, rs, dateKey, navKey) ==
    IF rs = <<>> \/ dateKey = NoKey \/ navKey = NoKey THEN <<>>
    ELSE Points(Clean(zone, rs, dateKey, navKey))

\* ------------------------------------------------------------------------
\* Returns analytics
\* ------------------------------------------------------------------------

LookbackLabels == <<"1D", "1W", "1M", "3M", "6M", "1Y", "3Y", "5Y">>

lookbackPeriods ==
    [l \in {"1D", "1W", "1M", "3M", "6M", "1Y", "3Y", "5Y"} |->
        CASE l = "1D" -> 1 [] l = "1W" -> 7 [] l = "1M" -> 30 [] l = "3M" -> 90
          [] l = "6M" -> 180 [] l = "1Y" -> 365 [] l = "3Y" -> 365 * 3
          [] l = "5Y" -> 365 * 5]

TrailingLabels == {"YTD", "SI", "DD", "Max DD"} \cup DOMAIN lookbackPeriods

\* The result of an operation that can end in a TypeError: threw, or val.
Threw == [threw |-> TRUE, val |-> Null]
Returned(v) == [threw |-> FALSE, val |-> v]

\* findClosest(series, endDate, days): the last point, scanning from the
\* end, dated at or before endDate moved back by days calendar days (the
\* same time of day; the zone offset does not change); 0 for null.
RECURSIVE ScanBack(_, _, _)
ScanBack(s, target, i) ==
    IF i = 0 THEN 0
    ELSE IF s[i].date.t <= target THEN i
    ELSE ScanBack(s, target, i - 1)

\* A scan from the front: the earliest point at or before the target.
findClosest_Earliest(s, endDate, days) ==
    LET target == endDate.t - days * MinutesPerDay
        at == {i \in 1..Len(s) : s[i].date.t <= target}
    IN  IF at = {} THEN 0 ELSE CHOOSE i \in at : \A j \in at : i <= j

\* The nearest point in either direction: the last point of the series when
\* none lies at or before the target.
findClosest_Nearest(s, endDate, days) ==
    LET i == ScanBack(s, endDate.t - days * MinutesPerDay, Len(s))
    IN  IF i = 0 THEN Len(s) ELSE i

findClosest(s, endDate, days) ==
    ScanBack(s, endDate.t - days * MinutesPerDay, Len(s))

\* calculateYTD(series); reading the date of the last point of an empty
\* series is a TypeError.
calculateYTD(zone, s) ==
    IF s = <<>> THEN Threw
    ELSE LET latest == s[Len(s)]
             yearStart == LocalDate(zone, getFullYear(zone, latest.date), 0, 1, 0, 0)
             found == {i \in 1..Len(s) : s[i].date.t >= yearStart.t}
             start == CHOOSE i \in found : \A j \in found : i <= j
         IN  IF found = {} THEN Returned(Null)
             ELSE Returned(NSub(NDiv(latest.nav, s[start].nav), Num(1)))

\* calculateTrailingReturns(series): the value under every label (Undef for
\* a label the result object does not hold).
calculateTrailingReturns(zone, s) ==
    IF s = <<>> THEN Returned([l \in TrailingLabels |-> Undef])
    ELSE LET latest == s[Len(s)]
             endDate == latest.date
             endNav == latest.nav
             ytd == calculateYTD(zone, s)
             first == s[1]
             past(l) == findClosest(s, endDate, lookbackPeriods[l])
         IN  IF ytd.threw THEN Threw
             ELSE Returned([l \in TrailingLabels |->
                    IF l = "YTD" THEN ytd.val
                    ELSE IF l = "SI" THEN NSub(NDiv(endNav, first.nav), Num(1))
                    ELSE IF l = "DD" THEN NDiv(latest.drawdown, Num(100))
                    ELSE IF l = "Max DD"
                         THEN NDiv(MathMinAll([i \in 1..Len(s) |-> s[i].drawdown]), Num(100))
                    ELSE IF past(l) # 0
                         THEN NSub(NDiv(endNav, s[past(l)].nav), Num(1))
                    ELSE Null])

\* The text fmtPct shows: the dash for null and undefined, else the
\* percentage to one decimal (.pct; NaN and the infinities print as such).
Dash == [dash |-> TRUE, pct |-> Null]

fmtPct(v) ==
    IF v = Null \/ v = Undef THEN Dash
    ELSE [dash |-> FALSE, pct |-> RoundTo(NMul(v, Num(100)), 10)]

\* The month of a point, as monthlyReturns keys it: local year and month
\* (1..12).
MonthOf(zone, p) ==
    [year |-> getFullYear(zone, p.date), month |-> getMonth(zone, p.date) + 1]

\* lastByMonth after the points 1..n of the series: per month key, the
\* value of the last point met in that month.
RECURSIVE LastByMonth(_, _, _)
LastByMonth(zone, s, n) ==
    IF n = 0 THEN <<>>
    ELSE MapSet(LastByMonth(zone, s, n - 1), MonthOf(zone, s[n]), s[n].nav)

\* navLookup(key)
NavLookup(lastByMonth, key) ==
    IF \E i \in 1..Len(lastByMonth) : lastByMonth[i].key = key
    THEN lastByMonth[CHOOSE i \in 1..Len(lastByMonth) : lastByMonth[i].key = key].rec
    ELSE Null

\* A previous month that stays in the year: December of the same year
\* before January.
PrevMonth_SameYear(k) ==
    IF k.month > 1 THEN [year |-> k.year, month |-> k.month - 1]
    ELSE [year |-> k.year, month |-> 12]

\* prevKey
PrevMonth(k) ==
    IF k.month > 1 THEN [year |-> k.year, month |-> k.month - 1]
    ELSE [year |-> k.year - 1, month |-> 12]

\* mom
MonthReturn(val, prevVal) ==
    IF prevVal # Null /\ ~NEq(prevVal, Num(0))
    THEN NSub(NDiv(val, prevVal), Num(1))
    ELSE Null

\* rows: one per month key, in the order of the sorted keys ("YYYY-MM"
\* texts sort by year, then month, for years of four digits).
RECURSIVE MonthRows(_, _, _)
MonthRows(lastByMonth, sortedKeys, n) ==
    IF n = 0 THEN <<>>
    ELSE LET key == sortedKeys[n]
             val == NavLookup(lastByMonth, key)
             prevVal == NavLookup(lastByMonth, PrevMonth(key))
         IN  Append(MonthRows(lastByMonth, sortedKeys, n - 1),
                    [year |-> key.year, month |-> key.month, nav |-> val,
                     ret |-> MonthReturn(val, prevVal)])

\* rr ? rr.ret : null for rr = rows.find(r => r.year === y && r.month === m)
MonthSlot(mrows, y, m) ==
    LET found == {i \in 1..Len(mrows) : mrows[i].year = y /\ mrows[i].month = m}
    IN  IF found = {} THEN Null
        ELSE mrows[CHOOSE i \in found : \A j \in found : i <= j].ret

\* ytdAcc and anyMonth after the month slots 1..m of a year
RECURSIVE YtdAcc(_, _)
YtdAcc(slots, m) ==
    IF m = 0 THEN [acc |-> Num(1), anyMonth |-> FALSE]
    ELSE LET a == YtdAcc(slots, m - 1)
             v == slots[m]
         IN  IF v # Null
             THEN [acc |-> NMul(a.acc, NAdd(Num(1), v)), anyMonth |-> TRUE]
             ELSE a

\* The years of the rows, each once, latest first.
RECURSIVE YearsDesc(_, _)
YearsDesc(mrows, n) ==
    IF n = 0 THEN <<>>
    ELSE LET rest == YearsDesc(mrows, n - 1)
             y == mrows[n].year
         IN  IF \E i \in 1..Len(rest) : rest[i] = y THEN rest ELSE <<y>> \o rest

\* One row of the table
TableRow(mrows, y) ==
    LET slots == <<MonthSlot(mrows, y, 1), MonthSlot(mrows, y, 2), MonthSlot(mrows, y, 3),
                   MonthSlot(mrows, y, 4), MonthSlot(mrows, y, 5), MonthSlot(mrows, y, 6),
                   MonthSlot(mrows, y, 7), MonthSlot(mrows, y, 8), MonthSlot(mrows, y, 9),
                   MonthSlot(mrows, y, 10), MonthSlot(mrows, y, 11), MonthSlot(mrows, y, 12)>>
        a == YtdAcc(slots, 12)
    IN  [Year |-> y, month |-> slots,
         YTD |-> IF a.anyMonth THEN NSub(a.acc, Num(1)) ELSE Null]

\* monthlyReturns(series).table: one row per year that has a point, latest
\* year first.
monthlyReturns(zone, s) ==
    IF s = <<>> THEN <<>>
    ELSE LET lastByMonth == LastByMonth(zone, s, Len(s))
             sortedKeys == SortedBy([i \in 1..Len(lastByMonth) |-> lastByMonth[i].key],
                                    [i \in 1..Len(lastByMonth) |->
                                        lastByMonth[i].key.year * 12 + lastByMonth[i].key.month])
             mrows == MonthRows(lastByMonth, sortedKeys, Len(sortedKeys))
             years == YearsDesc(mrows, Len(mrows))
         IN  [r \in 1..Len(years) |-> TableRow(mrows, years[r])]

\* ------------------------------------------------------------------------
\* The pipeline as a state machine.  A sheet (keys, rows) is given; the
\* columns are detected, the series is built, the analytics are derived.
\*   pc = "rows"      the rows are available
\*   pc = "detected"  sel holds the column selection
\*   pc = "series"    series holds toSeries' output
\*   pc = "trailing"  trailing holds calculateTrailingReturns' result
\*   pc = "done"      grid holds monthlyReturns' table
\* err is set when a step ends in an exception.
\* ------------------------------------------------------------------------

NoSel == [dateKey |-> NoKey, navKey |-> NoKey]
NoTrailing == [l \in TrailingLabels |-> Undef]

DetectColumns ==
    /\ pc = "rows"
    /\ sel' = detectColumns(tz, keys, rows)
    /\ pc' = "detected"
    /\ UNCHANGED <<tz, keys, rows, series, trailing, grid, err>>
    /\ UNCHANGED uploads

ToSeries ==
    /\ pc = "detected"
    /\ series' = toSeries(tz, rows, sel.dateKey, sel.navKey)
    /\ pc' = "series"
    /\ UNCHANGED <<tz, keys, rows, sel, trailing, grid, err>>
    /\ UNCHANGED uploads

CalculateTrailingReturns ==
    /\ pc = "series"
    /\ LET r == calculateTrailingReturns(tz, series)
       IN  /\ err' = r.threw
           /\ trailing' = IF r.threw THEN trailing ELSE r.val
    /\ pc' = "trailing"
    /\ UNCHANGED <<tz, keys, rows, sel, series, grid>>
    /\ UNCHANGED uploads

MonthlyReturns ==
    /\ pc = "trailing"
    /\ ~err
    /\ grid' = monthlyReturns(tz, series)
    /\ pc' = "done"
    /\ UNCHANGED <<tz, keys, rows, sel, series, trailing, err>>
    /\ UNCHANGED uploads

\* ------------------------------------------------------------------------
\* Sheets
\* ------------------------------------------------------------------------

MaxRows == 3

\* Some text cells
Str_abc == <<"a", "b", "c">>
Str_1000 == <<"1", ",", "0", "0", "0">>
Str_1050 == <<"1", ",", "0", "5", "0">>
Str_Infinity == InfinityWord
Str_20230101 == <<"2", "0", "2", "3", "-", "0", "1", "-", "0", "1">>
Str_20230201 == <<"2", "0", "2", "3", "-", "0", "2", "-", "0", "1">>

\* Serial 44927 is 2023-01-01.
Serial(days, num, den) == NumCell(Fin(days * den + num, den))

\* All sequences of at most n elements of S
SeqsUpTo(S, n) == UNION {[1..k -> S] : k \in 0..n}

\* Rows over columns Date and NAV
DateNavRows(dateCells, navCells, n) ==
    SeqsUpTo({[c \in {"Date", "NAV"} |-> IF c = "Date" THEN dc ELSE nc] :
                 dc \in dateCells, nc \in navCells}, n)

InitCommon ==
    /\ series = <<>>
    /\ trailing = NoTrailing
    /\ grid = <<>>
    /\ err = FALSE
    /\ files = <<>>
    /\ reading = {}

\* ------------------------------------------------------------------------
\* SpecDays: toSeries on sheets whose Date cells fall on and around one
\* day, at several times of day, in several time zones.
\* ------------------------------------------------------------------------

\* UTC, India (UTC+05:30) and New York in winter (UTC-05:00)
Zones == {0, 330, -300}

DayCells ==
    { Serial(44927, 0, 1),          \* 2023-01-01 00:00 local
      Serial(44927, 7, 8),          \* 2023-01-01 21:00 local
      Serial(44928, 0, 1),          \* 2023-01-02 00:00 local
      StrCell(Str_abc) }            \* no date

DayNavCells == {NumCell(Num(1)), NumCell(Num(2)), StrCell(Str_abc)}

InitDays ==
    /\ tz \in Zones
    /\ keys = <<"Date", "NAV">>
    /\ rows \in DateNavRows(DayCells, DayNavCells, MaxRows)
    /\ sel = [dateKey |-> "Date", navKey |-> "NAV"]
    /\ pc = "detected"
    /\ InitCommon

NextDays == ToSeries

SpecDays == InitDays /\ [][NextDays]_vars

\* C1: for every list of rows in every order, the output of toSeries is
\* strictly increasing by date and no two of its points share a calendar
\* day.  A point's calendar day is the day of its date's local fields, the
\* fields coerceDate builds the date from and monthlyReturns reads.
C1_SortedOnePointPerDay ==
    pc = "series" =>
        \A i, j \in 1..Len(series) :
            i < j => /\ series[i].date.t < series[j].date.t
                     /\ LocalDay(tz, series[i].date) # LocalDay(tz, series[j].date)

\* The rows of the sheet with a valid date on local day D and a valid value.
ValidRowsOn(D) ==
    {i \in 1..Len(rows) :
        /\ isDateLike(tz, rows[i]["Date"])
        /\ LocalDay(tz, coerceDate(tz, rows[i]["Date"])) = D
        /\ isNumericLike(rows[i]["NAV"])
        /\ IsFin(NavOf(rows[i]["NAV"]))}

LocalDaysOfRows ==
    {LocalDay(tz, coerceDate(tz, rows[i]["Date"])) :
        i \in {k \in 1..Len(rows) : isDateLike(tz, rows[k]["Date"])}}

\* C2: when several rows with a valid date and a valid value fall on the
\* same calendar day, toSeries keeps a single point for that day, and it
\* carries the value of the last of those rows in row order.
C2_LastRowOfDayWins ==
    pc = "series" =>
        \A D \in LocalDaysOfRows :
            Cardinality(ValidRowsOn(D)) >= 2 =>
                LET last == CHOOSE i \in ValidRowsOn(D) : \A j \in ValidRowsOn(D) : j <= i
                    pts == {p \in 1..Len(series) : LocalDay(tz, series[p].date) = D}
                IN  /\ Cardinality(pts) = 1
                    /\ \A p \in pts : series[p].nav = NavOf(rows[last]["NAV"])

\* ------------------------------------------------------------------------
\* SpecValues: toSeries on sheets of up to MaxRows rows over three days,
\* with values that are zero, small integers, or the text Infinity.
\* ------------------------------------------------------------------------

ValueZones == {0, 330}

ValueDayCells == {Serial(44927, 0, 1), Serial(44928, 0, 1), Serial(44929, 0, 1)}

ValueNavCells ==
    {NumCell(Num(0)), NumCell(Num(1)), NumCell(Num(2)), NumCell(Num(3)),
     StrCell(Str_Infinity)}

InitValues ==
    /\ tz \in ValueZones
    /\ keys = <<"Date", "NAV">>
    /\ rows \in DateNavRows(ValueDayCells, ValueNavCells, MaxRows)
    /\ sel = [dateKey |-> "Date", navKey |-> "NAV"]
    /\ pc = "detected"
    /\ InitCommon

NextValues == ToSeries

SpecValues == InitValues /\ [][NextValues]_vars

AllFinite == \A i \in 1..Len(series) : IsFin(series[i].nav)

\* C3 as stated: the equity index of the first point is 100, and the equity
\* index of each later point whose previous value is not 0 is the previous
\* point's equity index times value_i / value_(i-1).
C3_EquityOfOutputCompounds ==
    pc = "series" /\ series # <<>> =>
        /\ series[1].equity = Num(100)
        /\ \A i \in 2..Len(series) :
              ~NEq(series[i - 1].nav, Num(0)) =>
                  series[i].equity =
                      NMul(series[i - 1].equity, NDiv(series[i].nav, series[i - 1].nav))

\* The unrounded equity index of point i of s: 100 at the first point, the
\* previous one times value_i / value_(i-1) after a previous value that is
\* not 0, and the previous one unchanged after a previous value of 0.
RECURSIVE RawEquity(_, _)
RawEquity(s, i) ==
    IF i = 1 THEN Num(100)
    ELSE IF NEq(s[i - 1].nav, Num(0)) THEN RawEquity(s, i - 1)
    ELSE NMul(RawEquity(s, i - 1), NDiv(s[i].nav, s[i - 1].nav))

\* C3 (amended): the equity index of the first point is 100, and the equity
\* index of every point is the unrounded equity index, which compounds by
\* value_i / value_(i-1) after every previous value that is not 0, rounded
\* to two decimals.
C3_EquityIsRoundedCompound ==
    pc = "series" /\ series # <<>> =>
        /\ series[1].equity = Num(100)
        /\ \A i \in 1..Len(series) : series[i].equity = ToFixed2(RawEquity(series, i))

\* A series in which rounding shows (the value falls from 3 to 1 or 2) and
\* in which a value of 0 is followed by another point.
C3_Witness ==
    /\ pc = "series"
    /\ Len(series) = 3
    /\ AllFinite
    /\ \E i \in 2..3 : series[i].equity # RawEquity(series, i)
    /\ \E i \in 1..2 : NEq(series[i].nav, Num(0))

\* Point i sets a new all-time high: its equity index is finite, above 100
\* and above that of every earlier point.
NewHigh(s, i) ==
    /\ IsFin(s[i].equity)
    /\ NLt(Num(100), s[i].equity)
    /\ \A j \in 1..(i - 1) : NLt(s[j].equity, s[i].equity)

C8_PointsAreFiniteAndDated ==
    pc = "series" =>
        \A i \in 1..Len(series) :
            /\ ~DateIsNaN(series[i].date)
            /\ IsFin(series[i].nav)

\* ------------------------------------------------------------------------
\* SpecReturns: the analytics of the series built from sheets of up to
\* MaxPoints rows on distinct dates spread over five years, listed oldest
\* first or newest first.
\* ------------------------------------------------------------------------

MaxPoints == 3

ReturnZones == {0, 330}

\* Dates in half days of the serial: 2023-01-01, 2023-01-02 (midnight and
\* noon), 2023-01-09, 2024-01-02, 2025-01-01, 2028-01-01.  From 2023-01-02
\* they lie 7, 365 and 1825 days ahead; 2025-01-01 lies 365 and 1095 days
\* before the two after it.
ReturnHalfDays == {89854, 89856, 89857, 89870, 90586, 91316, 93506}

ReturnNavs == {0, 1, 2}

RECURSIVE SortedSeqOf(_)
SortedSeqOf(S) ==
    IF S = {} THEN <<>>
    ELSE LET m == CHOOSE x \in S : \A y \in S : x <= y
         IN  <<m>> \o SortedSeqOf(S \ {m})

Reverse(q) == [i \in 1..Len(q) |-> q[Len(q) + 1 - i]]

ReturnRows(S, navs, newestFirst) ==
    LET asc == SortedSeqOf(S)
        ord == IF newestFirst THEN Reverse(asc) ELSE asc
    IN  [i \in 1..Len(ord) |->
           [c \in {"Date", "NAV"} |->
              IF c = "Date" THEN Serial(ord[i] \div 2, ord[i] % 2, 2)
              ELSE NumCell(Num(navs[ord[i]]))]]

InitReturns ==
    /\ tz \in ReturnZones
    /\ keys = <<"Date", "NAV">>
    /\ \E S \in {T \in SUBSET ReturnHalfDays : Cardinality(T) <= MaxPoints} :
          \E navs \in [S -> ReturnNavs] :
             \E newestFirst \in BOOLEAN :
                rows = ReturnRows(S, navs, newestFirst)
    /\ sel = [dateKey |-> "Date", navKey |-> "NAV"]
    /\ pc = "detected"
    /\ InitCommon

NextReturns == ToSeries \/ CalculateTrailingReturns \/ MonthlyReturns

SpecReturns == InitReturns /\ [][NextReturns]_vars

Analysed == pc \in {"trailing", "done"}

Unavailable(v) == v = Null \/ v = Undef

\* The points of the series dated at or before the latest date less days.
AtOrBefore(days) ==
    {i \in 1..Len(series) :
        series[i].date.t <= series[Len(series)].date.t - days * MinutesPerDay}

\* C5: for every lookback window, the return is latestValue / pastValue - 1
\* for the most recent point dated at or before the latest date less the
\* window's days, the window is unavailable when there is no such point,
\* and no error is raised.
C5_LookbackUsesLatestPointAtOrBefore ==
    Analysed /\ series # <<>> =>
        /\ ~err
        /\ \A l \in DOMAIN lookbackPeriods :
              LET at == AtOrBefore(lookbackPeriods[l])
              IN  IF at = {} THEN trailing[l] = Null
                  ELSE \E i \in at :
                          /\ \A j \in at : series[j].date.t <= series[i].date.t
                          /\ trailing[l] =
                                NSub(NDiv(series[Len(series)].nav, series[i].nav), Num(1))

\* Two points lie at or before the target of the one-day window, the older
\* with another value than the newer, one exactly a week before the latest,
\* and no point lies a month back.
C5_Witness ==
    /\ Analysed
    /\ Len(series) = 3
    /\ Cardinality(AtOrBefore(1)) = 2
    /\ series[1].nav # series[2].nav
    /\ series[2].date.t = series[3].date.t - 7 * MinutesPerDay
    /\ AtOrBefore(30) = {}
    /\ trailing["1W"] # Null
    /\ trailing["1M"] = Null

\* C6 as stated: with zero or one point, every trailing-returns entry and
\* every month and year-to-date slot of the grid is unavailable, and no
\* exception is thrown.
C6_DegenerateAllUnavailable ==
    Len(series) <= 1 =>
        /\ ~err
        /\ Analysed => \A l \in TrailingLabels : Unavailable(trailing[l])
        /\ pc = "done" =>
              \A r \in 1..Len(grid) :
                  /\ grid[r].YTD = Null
                  /\ \A m \in 1..12 : grid[r].month[m] = Null

\* C6 (amended): with zero points every trailing-returns entry is
\* unavailable and the grid has no row; with one point every lookback
\* window and every month and year-to-date slot of the grid is unavailable,
\* while YTD and SI are value / value - 1 and DD and Max DD are 0; no
\* exception is thrown.
C6_DegenerateSeries ==
    /\ Len(series) <= 1 => ~err
    /\ Analysed /\ Len(series) = 0 => \A l \in TrailingLabels : Unavailable(trailing[l])
    /\ Analysed /\ Len(series) = 1 =>
          LET self == NSub(NDiv(series[1].nav, series[1].nav), Num(1))
          IN  /\ \A l \in DOMAIN lookbackPeriods : trailing[l] = Null
              /\ trailing["YTD"] = self
              /\ trailing["SI"] = self
              /\ IsFin(series[1].nav) /\ series[1].nav # Num(0) => self = Num(0)
              /\ trailing["DD"] = Num(0)
              /\ trailing["Max DD"] = Num(0)
    /\ pc = "done" /\ Len(series) = 0 => grid = <<>>
    /\ pc = "done" /\ Len(series) = 1 =>
          /\ Len(grid) = 1
          /\ grid[1].YTD = Null
          /\ \A m \in 1..12 : grid[1].month[m] = Null

\* The analytics of a one-point series with a nonzero value are done.
C6_Witness ==
    /\ pc = "done"
    /\ Len(series) = 1
    /\ trailing["SI"] = Num(0)
    /\ trailing["1D"] = Null
    /\ Len(grid) = 1

\* C7: where the previous value of a return is 0 the return is 0, and no
\* infinite or NaN value is produced: in a series of two or more points the
\* equity index and drawdown are finite, and the lookback, YTD and SI
\* returns are finite or unavailable (SI is 0 when the first value is 0).
C7_ZeroDenominatorGivesZero ==
    /\ pc # "detected" =>
          \A i \in 1..Len(series) : IsFin(series[i].equity) /\ IsFin(series[i].drawdown)
    /\ Analysed /\ Len(series) >= 2 =>
          /\ \A l \in TrailingLabels : Unavailable(trailing[l]) \/ IsFin(trailing[l])
          /\ series[1].nav = Num(0) => trailing["SI"] = Num(0)

\* ------------------------------------------------------------------------
\* SpecDetect: detectColumns on sheets of two columns, A then B, whose
\* first rows are all one row and whose other rows are all another; the
\* sheets have from 1 to MaxSheetRows rows, more than the sample holds.
\* ------------------------------------------------------------------------

MaxSheetRows == 52

\* A cell that is neither date-like nor numeric-like, one that is both, a
\* date that is no number and a number that is no date.
DetectCells ==
    {NullCell, NumCell(Num(5)), StrCell(Str_20230101), StrCell(Str_Infinity)}

SheetSizes == {1, 2, 3, 5, SampleCap, MaxSheetRows}

\* Where the first kind of row ends: at the threshold of the sample and one
\* row short of it, and at the ends of the sheet and of the sample.
Splits(n) ==
    LET t == Threshold(Min(n, SampleCap))
    IN  {0, t - 1, t, n - t, SampleCap, n} \cap 0..n

InitDetect ==
    /\ tz = 0
    /\ keys = <<"A", "B">>
    /\ \E n \in SheetSizes :
          \E a \in Splits(n) :
             \E rowA, rowB \in [{"A", "B"} -> DetectCells] :
                rows = [i \in 1..n |-> IF i <= a THEN rowA ELSE rowB]
    /\ sel = NoSel
    /\ pc = "rows"
    /\ InitCommon

NextDetect == DetectColumns

SpecDetect == InitDetect /\ [][NextDetect]_vars

SampleSize == Min(Len(rows), SampleCap)

\* The least whole number that is at least 0.6 of the sample
SixtyPercent == CHOOSE t \in 0..SampleSize : 5 * t >= 3 * SampleSize /\ 5 * (t - 1) < 3 * SampleSize

DateCount(c) == Cardinality({i \in 1..SampleSize : isDateLike(tz, rows[i][keys[c]])})
NumCount(c) == Cardinality({i \in 1..SampleSize : isNumericLike(rows[i][keys[c]])})

\* key is the selection the rule of C9 makes over the counts cnt.
SelectedByRule(key, cnt) ==
    LET cols == 1..Len(keys)
        cands == {c \in cols : cnt[c] >= SixtyPercent}
        top(S) == {c \in S : \A e \in S : cnt[e] <= cnt[c]}
    IN  IF cands # {}
        THEN key = keys[CHOOSE c \in top(cands) : \A e \in top(cands) : c <= e]
        ELSE IF \E c \in cols : cnt[c] > 0
        THEN \E c \in top(cols) : key = keys[c]
        ELSE key = NoKey

\* C9: over the first min(50, rowCount) rows, the date column is the first
\* in key order of the columns with the highest dateCount among those with
\* dateCount >= ceil(0.6 * sampleSize); when no column reaches that, it is
\* a column with the highest nonzero dateCount, and none when every
\* dateCount is 0.  The value column follows the same rule on numCount.
C9_ColumnsFollowTheRule ==
    pc = "detected" =>
        /\ SelectedByRule(sel.dateKey, [c \in 1..Len(keys) |-> DateCount(c)])
        /\ SelectedByRule(sel.navKey, [c \in 1..Len(keys) |-> NumCount(c)])

\* In a sheet longer than the sample, no column has enough dates in the
\* sample, column A has none and column B, with some, is selected; the
\* value column is A, with more numbers than B, both at the threshold or
\* above.
C9_Witness ==
    /\ pc = "detected"
    /\ Len(rows) > SampleCap
    /\ DateCount(1) = 0
    /\ DateCount(2) \in 1..(SixtyPercent - 1)
    /\ sel.dateKey = "B"
    /\ NumCount(2) >= SixtyPercent
    /\ NumCount(1) > NumCount(2)
    /\ sel.navKey = "A"

\* ------------------------------------------------------------------------
\* SpecSheet: the whole pipeline on sheets with a column Date of serial
\* numbers and a column NAV of comma-grouped numbers in text, the columns
\* in either order.
\* ------------------------------------------------------------------------

SheetDateCells == {Serial(44927, 0, 1), Serial(44958, 0, 1)}

SheetNavCells == {StrCell(Str_1000), StrCell(Str_1050)}

\* Date 44927, 44958 with NAV "1,000", "1,050"
ScenarioB ==
    << [c \in {"Date", "NAV"} |->
          IF c = "Date" THEN Serial(44927, 0, 1) ELSE StrCell(Str_1000)],
       [c \in {"Date", "NAV"} |->
          IF c = "Date" THEN Serial(44958, 0, 1) ELSE StrCell(Str_1050)] >>

InitSheet ==
    /\ tz \in Zones
    /\ keys \in {<<"Date", "NAV">>, <<"NAV", "Date">>}
    /\ rows \in DateNavRows(SheetDateCells, SheetNavCells, MaxRows)
    /\ rows # <<>>
    /\ sel = NoSel
    /\ pc = "rows"
    /\ InitCommon

NextSheet == DetectColumns \/ ToSeries \/ CalculateTrailingReturns \/ MonthlyReturns

SpecSheet == InitSheet /\ [][NextSheet]_vars

\* C10: in a sheet whose date column holds serial numbers and whose value
\* column holds comma-grouped numbers in text, detectColumns selects the
\* serial column as the date column and the text column as the value
\* column; for the serials 44927, 44958 with the values "1,000", "1,050"
\* the since-inception return reads 5.0%.
C10_SerialSheetDetectedAndFivePercent ==
    /\ pc # "rows" => sel = [dateKey |-> "Date", navKey |-> "NAV"]
    /\ Analysed /\ rows = ScenarioB => fmtPct(trailing["SI"]) = [dash |-> FALSE, pct |-> Num(5)]

\* ------------------------------------------------------------------------
\* SpecMonths: the pipeline on sheets of up to MaxPoints rows on distinct
\* dates in neighbouring months, across a change of year, and in a year
\* whose previous year has no row.
\* ------------------------------------------------------------------------

MonthZones == {0, 330, -300}

\* Dates in half days of the serial: 2022-11-30, 2022-12-15, 2022-12-31
\* (noon), 2023-01-31, 2023-02-28, 2025-01-15.
MonthHalfDays == {89790, 89820, 89853, 89914, 89970, 91344}

MonthNavs == {0, 1, 2}

InitMonths ==
    /\ tz \in MonthZones
    /\ keys = <<"Date", "NAV">>
    /\ \E S \in {T \in SUBSET MonthHalfDays : Cardinality(T) <= MaxPoints} :
          \E navs \in [S -> MonthNavs] :
             \E newestFirst \in BOOLEAN :
                rows = ReturnRows(S, navs, newestFirst)
    /\ sel = [dateKey |-> "Date", navKey |-> "NAV"]
    /\ pc = "detected"
    /\ InitCommon

NextMonths == ToSeries \/ CalculateTrailingReturns \/ MonthlyReturns

SpecMonths == InitMonths /\ [][NextMonths]_vars

\* The points of the series in month m (1..12) of year y, by the local
\* fields of their dates.
Bucket(y, m) ==
    {i \in 1..Len(series) :
        getFullYear(tz, series[i].date) = y /\ getMonth(tz, series[i].date) + 1 = m}

\* The representative value of a month that has a point: the value of its
\* latest point.
Representative(y, m) ==
    series[CHOOSE i \in Bucket(y, m) : \A j \in Bucket(y, m) : j <= i].nav

\* The year and the month before month m of year y
YearBefore(y, m) == IF m = 1 THEN y - 1 ELSE y
MonthBefore(m) == IF m = 1 THEN 12 ELSE m - 1

\* C11: the return of every month that has a point is its representative
\* value over the representative value of the calendar month before it
\* (December of the year before, for January), less 1; it is unavailable
\* when the month before has no point or its representative value is 0,
\* also when the whole year before has no point; no error is raised.
C11_MonthAgainstPreviousCalendarMonth ==
    /\ pc \in {"trailing", "done"} => ~err
    /\ pc = "done" =>
          \A r \in 1..Len(grid) : \A m \in 1..12 :
              LET y == grid[r].Year
              IN  Bucket(y, m) # {} =>
                    IF \/ Bucket(YearBefore(y, m), MonthBefore(m)) = {}
                       \/ Representative(YearBefore(y, m), MonthBefore(m)) = Num(0)
                    THEN grid[r].month[m] = Null
                    ELSE grid[r].month[m] =
                            NSub(NDiv(Representative(y, m),
                                      Representative(YearBefore(y, m), MonthBefore(m))),
                                 Num(1))

\* A January measured against the December of the year before it, and a
\* January of a year whose previous year has no point at all.
C11_Witness ==
    /\ pc = "done"
    /\ Len(grid) = 3
    /\ grid[1].Year = 2025 /\ grid[2].Year = 2023 /\ grid[3].Year = 2022
    /\ Bucket(2025, 1) # {}
    /\ grid[1].month[1] = Null
    /\ grid[2].month[1] # Null
    /\ grid[2].month[1] # Num(0)
    /\ Bucket(2022, 12) # {}

\* ------------------------------------------------------------------------
\* SpecPage: PortfolioPage under a sequence of uploads.  Choosing a file
\* calls handleFile, which waits for the file to be read; when the read
\* completes the rest of handleFile runs in one turn.  The reads of the
\* files chosen complete in any order.  series and grid are the state the
\* page displays.
\* ------------------------------------------------------------------------

MaxUploads == 2

PageZones == {0, 330}

\* A sheet with the columns Date and NAV
Sheet(rs) == [keys |-> <<"Date", "NAV">>, rows |-> rs]

DateNavRow(d, n) == [c \in {"Date", "NAV"} |-> IF c = "Date" THEN d ELSE n]

\* Sheets with dates in text and values in numbers, and two sheets in which
\* no cell is date-like or numeric-like.
PageSheets ==
    { Sheet(<<DateNavRow(StrCell(Str_20230101), NumCell(Num(1)))>>),
      Sheet(<<DateNavRow(StrCell(Str_20230101), NumCell(Num(2)))>>),
      Sheet(<<DateNavRow(StrCell(Str_20230101), NumCell(Num(1))),
              DateNavRow(StrCell(Str_20230201), NumCell(Num(2)))>>),
      Sheet(<<DateNavRow(StrCell(Str_20230201), NumCell(Num(2))),
              DateNavRow(StrCell(Str_20230101), NumCell(Num(1))),
              DateNavRow(StrCell(Str_20230201), NumCell(Num(3)))>>),
      Sheet(<<DateNavRow(StrCell(Str_abc), StrCell(Str_abc))>>),
      Sheet(<<DateNavRow(NullCell, NullCell), DateNavRow(StrCell(Str_abc), NullCell)>>) }

InitPage ==
    /\ tz \in PageZones
    /\ keys = <<>>
    /\ rows = <<>>
    /\ sel = NoSel
    /\ pc = "page"
    /\ InitCommon

\* onChange: handleFile(file) up to its await of file.arrayBuffer()
ChooseFile(f) ==
    /\ pc = "page"
    /\ Len(files) < MaxUploads
    /\ files' = Append(files, f)
    /\ reading' = reading \cup {Len(files) + 1}
    /\ UNCHANGED <<tz, keys, rows, pc, sel, series, trailing, grid, err>>

\* handleFile(file) from the completion of the read of upload i to its end
HandleFile(i) ==
    /\ pc = "page"
    /\ i \in reading
    /\ reading' = reading \ {i}
    /\ keys' = files[i].keys
    /\ rows' = files[i].rows
    /\ sel' = detectColumns(tz, files[i].keys, files[i].rows)
    /\ series' = IF sel'.dateKey = NoKey \/ sel'.navKey = NoKey THEN series
                 ELSE toSeries(tz, files[i].rows, sel'.dateKey, sel'.navKey)
    /\ grid' = IF sel'.dateKey = NoKey \/ sel'.navKey = NoKey THEN grid
               ELSE monthlyReturns(tz, series')
    /\ UNCHANGED <<tz, pc, trailing, err, files>>

NextPage ==
    \/ \E f \in PageSheets : ChooseFile(f)
    \/ \E i \in reading : HandleFile(i)

SpecPage == InitPage /\ [][NextPage]_vars

\* The series derived from the rows of a sheet: empty when a column is
\* not detected.
DerivedSeries(f) ==
    toSeries(tz, f.rows, detectColumns(tz, f.keys, f.rows).dateKey,
             detectColumns(tz, f.keys, f.rows).navKey)

\* C12: once every upload made has been processed by handleFile, the
\* series and the grid displayed are the ones derived from the rows of the
\* most recent upload, and nothing derived from an earlier upload remains,
\* also when the most recent upload fails column detection and when the
\* reads complete in another order than the uploads were made.
C12_DisplayIsTheLatestUpload ==
    pc = "page" /\ files # <<>> /\ reading = {} =>
        /\ series = DerivedSeries(files[Len(files)])
        /\ grid = monthlyReturns(tz, DerivedSeries(files[Len(files)]))

====
